---- MODULE Spec2Model ----
(***************************************************************************)
(* The KYC liveness client: the drafts of the verification component       *)
(* (KYCForm, LivenessCheck and the recording forms) and the two drafts of  *)
(* the API module, as one state machine.                                   *)
(*                                                                         *)
(* One draft of the component is mounted per behaviour (variable form) and *)
(* it is linked against one draft of the API module (variable apiVer).     *)
(*                                                                         *)
(* Time is counted in units of 100 ms (the polling cadence).  React state  *)
(* is modelled in two layers: the state variables hold the latest value    *)
(* (what an updater function sees as prev); view holds the values of the   *)
(* last committed render, which decide what is mounted, which timers the   *)
(* effects have armed and which closure a callback runs with.              *)
(***************************************************************************)
EXTENDS Integers, Sequences, FiniteSets, TLC

VARIABLES
    form,          \* the draft of the verification component that is mounted
    apiVer,        \* the draft of the API module it is linked with
    token,         \* localStorage 'token'
    user,          \* localStorage 'user'
    href,          \* window.location.href: "app", or "/login" after a 401 redirect
    route,         \* the client-side route (useNavigate)
    step,          \* useState step
    blinkCount,    \* useState blinkCount
    loading,       \* useState loading
    modelsLoaded,  \* useState modelsLoaded
    faceDetected,  \* useState faceDetected
    capturedImage, \* useState capturedImage: 0 is null, n > 0 the n-th capture
    sinceBlink,    \* Date.now() - lastBlinkTime.current, in units, saturated
    cam,           \* the Webcam element's getUserMedia: off, pending, live, denied
    cameraStream,  \* useState cameraStream of the recording form: null, live, stopped
    tracks,        \* the tracks of the MediaStream the form acquired: none, live, stopped
    recordingTime, \* useState recordingTime
    chunks,        \* chunksRef.current: the sizes of the chunks pushed
    mediaRecorder, \* mediaRecorderRef.current: null, recording, inactive
    cameraReady,   \* useState cameraReady
    retryAttempt,  \* useState retryAttempt
    view,          \* the state values of the last committed render
    timer,         \* armed timers: name -> units left (Off when not armed)
    inflight,      \* detection calls awaiting their result, oldest first
    net,           \* outstanding submitKYC calls: the evidence each carries
    pending,       \* other awaited promises: name -> how many
    probe,         \* the frame handed to checkStraightFace: jaw points and video size
    hook,          \* useCamera: hasPermission, error, stream, and the tracks still live
    hist           \* history of the session (ghost state read by the properties only)

vars == << form, apiVer, token, user, href, route, step, blinkCount, loading, modelsLoaded,
           faceDetected, capturedImage, sinceBlink, cam, cameraStream, tracks, recordingTime,
           chunks, mediaRecorder, cameraReady, retryAttempt, view, timer, inflight,
           net, pending, probe, hook, hist >>

----------------------------------------------------------------------------
(* Bounds of the model *)

MaxInflight == 3   \* detection calls in flight at once
MaxShots == 2      \* captures per behaviour
MaxBlinks == 4     \* cap of blinkCount in the form that never resets it
MaxRetry == 2      \* failed model loads per behaviour
MaxAcquire == 2    \* requestPermission calls of useCamera per behaviour

----------------------------------------------------------------------------
(* The API module: api.ts (ApiTs) and its earlier draft part_001 (Api001) *)

ApiTs == "api.ts"
Api001 == "part_001"
ApiVers == {ApiTs, Api001}

SignupUrl == "/auth/signup/"
LoginUrl == "/auth/login/"
KycUrl == "/kyc/kyc/"

NoToken == "none"
NoUser == "none"

\* String.prototype.includes on the URLs the module posts to.
UrlIncludes(url, pat) ==
    CASE pat = "/kyc/kyc/" -> url = KycUrl
      [] pat = "auth/signup" -> url = SignupUrl
      [] pat = "auth/login" -> url = LoginUrl
      [] OTHER -> FALSE

\* A message of "" models an absent (falsy) message field.
Messages == {"", "Verification failed"}
Flags == {"true", "false", "undef"}
Bodies == [success : Flags, message : Messages, token : {NoToken, "t2"}]

\* What axios hands back: a response with a status, or none at all (status 0).
NoResponse == 0
Statuses == {200, 400, 401, 500}
Replies == [status : Statuses \cup {NoResponse}, body : Bodies]

Is2xx(reply) == reply.status = 200

\* The result of calling an API function: a value or a throw;
\* clearToken/redirect are the side effects on localStorage and the location.
Returned(success, message) ==
    [kind |-> "value", success |-> success, message |-> message,
     clearToken |-> FALSE, redirect |-> FALSE]
Threw ==
    [kind |-> "throw", success |-> "undef", message |-> "",
     clearToken |-> FALSE, redirect |-> FALSE]
\* A throw of the error e: "AxiosError" is the error axios rejected with,
\* "data" the Error built from JSON.stringify(error.response.data).
Thrown(e) == [Threw EXCEPT !.message = e]
Or(message, default) == IF message = "" THEN default ELSE message

\* handleApiError of api.ts (the KYC branch returns before the status switch)
\* and of part_001 (no KYC branch; every path throws).
handleApiError(ver, url, reply) ==
    IF reply.status # NoResponse
    THEN IF ver = ApiTs /\ UrlIncludes(url, "/kyc/kyc/")
         THEN Returned("false", Or(reply.body.message, "KYC verification failed"))
         ELSE CASE reply.status = 400 -> Thrown("data")
                [] reply.status = 401 ->
                     IF ver = ApiTs
                     THEN [Returned("false", "An unexpected error occurred")
                             EXCEPT !.clearToken = TRUE, !.redirect = TRUE]
                     ELSE [Thrown("AxiosError 401")
                             EXCEPT !.clearToken = TRUE, !.redirect = TRUE]
                [] OTHER -> Thrown("An error occurred. Please try again.")
    ELSE IF ver = ApiTs
         THEN Returned("false", "An unexpected error occurred")
         ELSE Thrown("AxiosError")

\* submitKYC: api.ts wraps every 2xx body as success; part_001 returns the body.
submitKYC(ver, reply) ==
    IF Is2xx(reply)
    THEN IF ver = ApiTs
         THEN Returned("true", Or(reply.body.message, "KYC verification successful"))
         ELSE Returned(reply.body.success, reply.body.message)
    ELSE handleApiError(ver, KycUrl, reply)

\* The request interceptor: does the request carry Authorization: Bearer <token>?
Interceptor(ver, url, tok) ==
    IF ver = ApiTs
    THEN /\ ~UrlIncludes(url, "auth/signup")
         /\ ~UrlIncludes(url, "auth/login")
         /\ tok # NoToken
    ELSE tok # NoToken

----------------------------------------------------------------------------
(* The drafts of the verification component *)

FormA == "KYCForm"          \* KYCForm.tsx, first component (debounced, with 'initializing')
FormB == "KYCForm.2"        \* KYCForm.tsx, second component (no debounce)
Live == "LivenessCheck"     \* LivenessCheck.tsx (timed still capture, manual submit)
Rec4 == "part_004"          \* recording form with a permissions step
Rec5 == "part_005"          \* recording form that acquires the stream itself
Rec6 == "part_006"          \* recording form driven by a 4 s timeout
Hold7 == "part_007"         \* blink-and-hold form
HookHost == "useCamera"     \* a component that uses the useCamera hook
Forms == {FormA, FormB, Live, Rec4, Rec5, Rec6, Hold7, HookHost}
GatedForms == {FormA, FormB, Hold7}

LoginRoute == "/"
SignupRoute == "/signup"
KycRoute == "/kyc"
DashboardRoute == "/dashboard"

\* Durations, in units of 100 ms.
PollUnits == 1        \* setInterval(detectFace, 100)
Cooldown == 5         \* now - lastBlinkTime.current > 500
NavUnits == 20        \* setTimeout(() => navigate('/dashboard'), 2000)
BlinkPromptUnits == 30  \* setTimeout(..., 3000) of handleStartDetection
CaptureUnits == 20    \* setTimeout(captureImage, 2000)
RecUnits == 10        \* setInterval(..., 1000) of startRecording
RecSeconds == 4       \* prev >= 4
StopUnits == 40       \* setTimeout(() => stopRecording(), 4000)
RetryUnits == 20      \* setTimeout(loadModels, 2000)
MaxBlobSize == 10     \* maxSize = 10 * 1024 * 1024, in MB
SinceCap == Cooldown + 1
Off == 0 - 1

\* Thresholds: EAR in hundredths, distance in pixels.
BlinkThreshold == 20
CenterThreshold == 100

BlinkSteps == {"initial-blink", "look-straight", "final-blink"}

TimerNames == {"poll", "nav", "blinkPrompt", "capture", "rec", "stop", "retry"}
PendingNames == {"load", "perm"}

\* A detection observation: what detectSingleFace(...).withFaceLandmarks() resolved to.
NoFace == [kind |-> "none", ear |-> 0, dist |-> 0]
DetectThrows == [kind |-> "throw", ear |-> 0, dist |-> 0]
Faces == [kind : {"face"}, ear : {15, 20}, dist : {50, 100}]
BlinkObs == [kind |-> "face", ear |-> 15, dist |-> 100]
CenteredObs == [kind |-> "face", ear |-> 20, dist |-> 50]
NeutralObs == [kind |-> "face", ear |-> 20, dist |-> 100]
Observations == Faces \cup {NoFace, DetectThrows}

Mounted == href = "app" /\ route = KycRoute

\* Ghost: the API call that settled in the step leading to this state (none
\* after any other step): the reply, what the API function made of it, and what
\* the awaiting handler then did.
NoCall ==
    [status |-> Off, flag |-> "undef", message |-> "", kind |-> "none",
     success |-> "undef", resultMessage |-> "", url |-> "", hadToken |-> FALSE,
     authorized |-> FALSE, completed |-> FALSE, scheduled |-> FALSE]
LowCap == PollUnits + 1

\* The component's mutable state as one record, so that a handler is a function.
Cur ==
    [step |-> step, blinkCount |-> blinkCount, loading |-> loading,
     modelsLoaded |-> modelsLoaded, faceDetected |-> faceDetected,
     capturedImage |-> capturedImage, sinceBlink |-> sinceBlink,
     cameraStream |-> cameraStream, tracks |-> tracks, recordingTime |-> recordingTime,
     chunks |-> chunks, mediaRecorder |-> mediaRecorder,
     cameraReady |-> cameraReady, retryAttempt |-> retryAttempt,
     timer |-> timer, net |-> net, pending |-> pending,
     token |-> token, user |-> user, href |-> href, route |-> route,
     probe |-> probe, hook |-> hook,
     hist |-> [hist EXCEPT !.last = NoCall, !.justCounted = FALSE, !.dbl = FALSE,
                           !.justMissed = FALSE, !.rereleased = FALSE, !.loggedOut = FALSE, !.started = FALSE, !.late = "none",
                           !.loadResult = "none", !.capturedAfter = 0,
                           !.stopTick = 0, !.justThrew = FALSE, !.denied = FALSE,
                           !.stopSize = Off,
                           !.stopSubmitted = FALSE]]

Put(c) ==
    /\ step' = c.step /\ blinkCount' = c.blinkCount /\ loading' = c.loading
    /\ modelsLoaded' = c.modelsLoaded /\ faceDetected' = c.faceDetected
    /\ capturedImage' = c.capturedImage /\ sinceBlink' = c.sinceBlink
    /\ cameraStream' = c.cameraStream /\ tracks' = c.tracks
    /\ recordingTime' = c.recordingTime
    /\ chunks' = c.chunks /\ mediaRecorder' = c.mediaRecorder
    /\ cameraReady' = c.cameraReady /\ retryAttempt' = c.retryAttempt
    /\ timer' = c.timer /\ net' = c.net /\ pending' = c.pending
    /\ probe' = c.probe /\ hook' = c.hook
    /\ token' = c.token /\ user' = c.user /\ href' = c.href /\ route' = c.route /\ hist' = c.hist

\* The bounds on the counters of a behaviour.
WithinBounds(c) ==
    /\ c.hist.shots <= MaxShots
    /\ c.hist.submits <= MaxShots
    /\ c.hist.procEntries <= MaxShots
    /\ c.blinkCount <= MaxBlinks
    /\ c.retryAttempt <= MaxRetry

\* What a render reads: the values the JSX and the effects' dependencies use.
ViewOf(c) ==
    [step |-> c.step, loading |-> c.loading, modelsLoaded |-> c.modelsLoaded,
     hasImage |-> c.capturedImage # 0, cameraStream |-> c.cameraStream,
     cameraReady |-> c.cameraReady, retryAttempt |-> c.retryAttempt,
     stream |-> c.hook.stream]

RenderPending == Mounted /\ view # ViewOf(Cur)

\* Is the <Webcam> element rendered (webcamRef.current non-null) under view v?
WebcamShown(v) ==
    CASE form = FormA -> v.step \in BlinkSteps
      [] form = FormB -> ~v.loading /\ v.step \in BlinkSteps
      [] form = Live -> v.step = "detection"
      [] form = Rec4 -> v.step = "recording" /\ v.cameraStream # "null"
      [] form \in {Rec5, Rec6} -> v.step = "recording"
      [] form = Hold7 -> v.step \in {"initializing", "detecting", "blinking", "holding"}
      [] OTHER -> FALSE

webcamRef == Mounted /\ WebcamShown(view)

\* Does the face-detection effect of the render with view v arm the interval?
PollArmed(v) ==
    CASE form = FormA -> v.modelsLoaded /\ v.step \in BlinkSteps
      [] form = FormB -> v.step \notin {"instructions", "processing", "complete"}
      [] form = Hold7 -> v.step \in {"detecting", "blinking", "holding"}
      [] OTHER -> FALSE

setStep(c, s) ==
    [c EXCEPT !.step = s,
              !.hist.procEntries = IF s = "processing" THEN @ + 1 ELSE @]

----------------------------------------------------------------------------
(* KYCForm.tsx: the two gated components *)

\* webcamRef.current.getScreenshot(): one more call; an image (numbered by the
\* call) when the camera is live, null (0) otherwise.
getScreenshot(c) == IF cam = "live" THEN c.hist.shots + 1 ELSE 0

\* The call of submitKYC: the request leaves with the evidence it carries.
postKyc(c, evidence) ==
    [c EXCEPT !.net = Append(@, evidence),
              !.hist.submits = @ + 1,
              !.hist.resent = @ \/ evidence \in c.hist.done]

\* handleSubmit up to its await.
handleSubmit(c, image) == postKyc([c EXCEPT !.loading = TRUE], image)

resetVerification(c) ==
    [setStep(c, "instructions") EXCEPT !.blinkCount = 0, !.capturedImage = 0,
                                       !.faceDetected = FALSE]

autoCapture(c) ==
    IF webcamRef
    THEN LET imageSrc == getScreenshot(c)
             c1 == [c EXCEPT !.hist.shots = @ + 1]
         IN  IF form = FormA
             THEN IF imageSrc # 0
                  THEN handleSubmit(setStep([c1 EXCEPT !.capturedImage = imageSrc],
                                            "processing"), imageSrc)
                  ELSE c1
             ELSE LET c2 == setStep([c1 EXCEPT !.capturedImage = imageSrc], "processing")
                  IN  IF imageSrc # 0 THEN handleSubmit(c2, imageSrc) ELSE c2
    ELSE c

\* The cooldown test of checkBlink; the second component has none.
Debounced(c) == IF form = FormB THEN TRUE ELSE c.sinceBlink > Cooldown

\* checkBlink, run by the closure of a render whose step was cstep.
checkBlink(c, cstep, ear) ==
    IF ear < BlinkThreshold /\ Debounced(c)
    THEN LET c1 == [c EXCEPT !.sinceBlink = IF form = FormB THEN @ ELSE 0,
                             !.hist.justCounted = TRUE]
             newCount == c.blinkCount + 1
             inPhase == c.hist.phaseBlinks + 1
         IN  IF cstep = "initial-blink" /\ newCount >= 1
             THEN [setStep(c1, "look-straight")
                     EXCEPT !.blinkCount = IF form = FormA THEN 0 ELSE newCount]
             ELSE IF cstep = "final-blink" /\ newCount >= 2
                  THEN LET c2 == autoCapture(c1)
                       IN  [c2 EXCEPT !.blinkCount = newCount,
                                      !.hist.phaseBlinks =
                                          IF c2.step = "processing" THEN 0 ELSE inPhase,
                                      !.hist.capturedAfter =
                                          IF c2.step = "processing" /\ c.step # "processing"
                                          THEN inPhase ELSE 0]
                  ELSE [c1 EXCEPT !.blinkCount = newCount,
                                  !.hist.phaseBlinks =
                                      IF cstep = "final-blink" /\ c.step = "final-blink"
                                      THEN inPhase ELSE @]
    ELSE c

checkStraightFace(c, dist) ==
    IF dist < CenterThreshold
    THEN [setStep(c, "final-blink") EXCEPT !.hist.phaseBlinks = 0]
    ELSE c

\* Variant of applyDetection that runs the gate checks on every tick, treating
\* a missing detection as closed eyes at the centre.
applyDetection_ChecksEveryTick(c, cstep, obs) ==
    CASE obs.kind = "throw" -> c
      [] OTHER ->
            LET c1 == IF obs.kind = "none"
                      THEN [c EXCEPT !.faceDetected = FALSE, !.hist.justMissed = TRUE]
                      ELSE [c EXCEPT !.faceDetected = TRUE, !.hist.everFace = TRUE]
            IN  IF cstep \in {"initial-blink", "final-blink"}
                THEN checkBlink(c1, cstep, obs.ear)
                ELSE IF cstep = "look-straight"
                     THEN checkStraightFace(c1, obs.dist)
                     ELSE c1

\* The rest of detectFace once the detection resolved to obs.
applyDetection(c, cstep, obs) ==
    CASE obs.kind = "throw" -> [c EXCEPT !.hist.justThrew = TRUE]
      [] obs.kind = "none" ->
            [c EXCEPT !.faceDetected = FALSE, !.hist.justMissed = TRUE,
                      !.hist.missRun = IF @ < 2 THEN @ + 1 ELSE @]
      [] OTHER ->
            LET c1 == [c EXCEPT !.faceDetected = TRUE, !.hist.everFace = TRUE,
                                !.hist.missRun = 0]
            IN  IF cstep \in {"initial-blink", "final-blink"}
                THEN checkBlink(c1, cstep, obs.ear)
                ELSE IF cstep = "look-straight"
                     THEN checkStraightFace(c1, obs.dist)
                     ELSE c1

\* handleSubmit after its await: result is what submitKYC returned or threw.
handleSubmitDone(c, result) ==
    LET c1 == IF result.kind # "throw"
              THEN [setStep(c, "complete") EXCEPT !.timer["nav"] = NavUnits,
                                                  !.hist.navs = @ + 1]
              ELSE IF form = FormA
                   THEN resetVerification(c)
                   ELSE setStep(c, "initial-blink")
    IN  [c1 EXCEPT !.loading = FALSE]

----------------------------------------------------------------------------
(* LivenessCheck.tsx: timed still capture, manual submit *)

captureImage(c) ==
    IF webcamRef
    THEN setStep([c EXCEPT !.capturedImage = getScreenshot(c), !.hist.shots = @ + 1],
                 "preview")
    ELSE c

\* handleSubmit of LivenessCheck after its await.
handleSubmitLiveDone(c, result) ==
    IF result.kind # "throw"
    THEN [c EXCEPT !.route = DashboardRoute, !.timer["poll"] = Off]
    ELSE setStep(c, "preview")

----------------------------------------------------------------------------
(* part_004, part_005, part_006: the timed-recording components *)

\* stream.getTracks().forEach(track => track.stop()) on the stream a closure
\* holds (held: its cameraStream); stopping a stopped track changes nothing.
\* Variant of stopTracks in which a second stop forgets the stream.
stopTracks_SecondStopForgets(c, held) ==
    IF held = "null" THEN c
    ELSE IF c.tracks = "live" THEN [c EXCEPT !.tracks = "stopped"]
    ELSE [c EXCEPT !.tracks = "none", !.hist.rereleased = TRUE]

stopTracks(c, held) ==
    IF held = "null" THEN c
    ELSE IF c.tracks = "live" THEN [c EXCEPT !.tracks = "stopped"]
    ELSE [c EXCEPT !.hist.rereleased = TRUE]

\* resetVerification of the recording components: part_004 stops the tracks of
\* the stream its closure holds and goes back to the permissions step.
resetRecording(c) ==
    IF form = Rec4
    THEN [setStep(stopTracks(c, c.cameraStream), "permissions")
            EXCEPT !.chunks = << >>, !.mediaRecorder = "null",
                   !.cameraStream = "null", !.recordingTime = 0]
    ELSE [setStep(c, "instructions")
            EXCEPT !.chunks = << >>, !.mediaRecorder = "null", !.recordingTime = 0]

\* startRecording from the reset of the chunks on; ok: new MediaRecorder(...)
\* and start() did not throw.
beginRecording(c, ok) ==
    LET c1 == [setStep(c, "recording") EXCEPT !.chunks = << >>, !.recordingTime = 0]
    IN  IF ok
        THEN [c1 EXCEPT !.mediaRecorder = "recording", !.timer["rec"] = RecUnits,
                        !.hist.recTicks = 0]
        ELSE IF form = Rec4 THEN resetRecording(c1) ELSE c1

\* new Blob(chunksRef.current).size
RECURSIVE SumOf(_)
SumOf(seq) == IF seq = << >> THEN 0 ELSE Head(seq) + SumOf(Tail(seq))

\* Variant of handleStopRecording without the validation of the blob.
handleStopRecording_NoValidation(c, size) ==
    LET c1 == [c EXCEPT !.chunks = IF size > 0 THEN Append(@, size) ELSE @,
                        !.mediaRecorder = "inactive"]
        c2 == setStep(c1, "processing")
        c3 == postKyc([c2 EXCEPT !.hist.shots = @ + 1], c2.hist.shots + 1)
    IN  [c3 EXCEPT !.hist.stopSize = SumOf(c1.chunks),
                   !.hist.stopSubmitted = Len(c3.net) > Len(c.net)]

\* The recorder's dataavailable event with a blob of the given size, then its
\* stop event: handleStopRecording up to its await.
handleStopRecording(c, size) ==
    LET c1 == [c EXCEPT !.chunks = IF size > 0 THEN Append(@, size) ELSE @,
                        !.mediaRecorder = "inactive"]
        c2 == setStep(c1, "processing")
        blob == SumOf(c1.chunks)
        c3 == IF blob = 0
              THEN resetRecording(c2)
              ELSE IF form = Rec4 /\ blob > MaxBlobSize
                   THEN resetRecording(c2)
                   ELSE postKyc([c2 EXCEPT !.hist.shots = @ + 1], c2.hist.shots + 1)
    IN  [c3 EXCEPT !.hist.stopSize = blob,
                   !.hist.stopSubmitted = Len(c3.net) > Len(c.net)]

\* handleStopRecording after its await.
handleStopRecordingDone(c, result) ==
    IF result.kind # "throw" /\ result.success = "true"
    THEN [setStep(c, "complete") EXCEPT !.timer["nav"] = NavUnits, !.hist.navs = @ + 1]
    ELSE resetRecording(c)

----------------------------------------------------------------------------
(* The state after the component mounted *)

RemoveAt(seq, i) == [j \in 1..(Len(seq) - 1) |-> IF j < i THEN seq[j] ELSE seq[j + 1]]

InitHist ==
    [shots |-> 0, submits |-> 0, procEntries |-> 0, navs |-> 0, justCounted |-> FALSE,
     everFace |-> FALSE, justMissed |-> FALSE, rereleased |-> FALSE, done |-> {},
     denied |-> FALSE,
     resent |-> FALSE, loggedOut |-> FALSE, started |-> FALSE, late |-> "none", left |-> FALSE,
     loadResult |-> "none", missRun |-> 0, phaseBlinks |-> 0, capturedAfter |-> 0,
     recTicks |-> 0, stopTick |-> 0, justThrew |-> FALSE,
     last |-> NoCall, stopSize |-> Off, stopSubmitted |-> FALSE,
     lowAge |-> LowCap, dbl |-> FALSE,
     scn |-> 0, scnAge |-> SinceCap, lateFirst |-> TRUE]

\* The component state of a page load, before the first event.
Fresh ==
    /\ href = "app"
    /\ step = (IF form = Rec4 THEN "permissions" ELSE "instructions")
    /\ blinkCount = 0
    /\ loading = (form = FormB)
    /\ modelsLoaded = FALSE
    /\ faceDetected = FALSE
    /\ capturedImage = 0
    /\ sinceBlink = (IF form \in {FormA, Hold7} THEN 0 ELSE SinceCap)
    /\ cam = "off"
    /\ cameraStream = "null"
    /\ tracks = "none"
    /\ recordingTime = 0
    /\ chunks = << >>
    /\ mediaRecorder = "null"
    /\ cameraReady = FALSE
    /\ retryAttempt = 0
    /\ timer = [n \in TimerNames |-> Off]
    /\ inflight = << >>
    /\ net = << >>
    /\ pending = [n \in PendingNames |-> IF n = "load" /\ form = FormB THEN 1 ELSE 0]
    /\ hist = InitHist
    /\ view = [step |-> step, loading |-> loading, modelsLoaded |-> FALSE,
               hasImage |-> FALSE, cameraStream |-> "null",
               cameraReady |-> FALSE, retryAttempt |-> 0, stream |-> 0]

\* useCamera before its first request: useState(null) three times; no stream
\* has been acquired (streams are numbered from 1, 0 is null).
NoHook == [hasPermission |-> "null", error |-> FALSE, stream |-> 0,
           live |-> {}, acquired |-> 0]

\* No frame has been handed over: its distance is drawn with the observation.
NoProbe == [x0 |-> 0, y0 |-> 0, x16 |-> 0, y16 |-> 0, width |-> 0, height |-> 0,
            checked |-> FALSE]

\* A signed-in user opens the verification view.
Init ==
    /\ form \in Forms
    /\ apiVer \in ApiVers
    /\ token = "t1"
    /\ user = "profile"
    /\ route = KycRoute
    /\ probe = NoProbe
    /\ hook = NoHook
    /\ Fresh

\* The application opens at its root route with what an earlier visit left in
\* localStorage; the verification view is the routed KYCForm.
AuthInit ==
    /\ form = FormA
    /\ apiVer \in ApiVers
    /\ token \in {NoToken, "t1"}
    /\ user \in {NoUser, "profile"}
    /\ route = LoginRoute
    /\ probe = NoProbe
    /\ hook = NoHook
    /\ Fresh

----------------------------------------------------------------------------
(* React: commit of a render and its effects *)

\* loadModels up to its await (the first component sets loading; part_007 does not).
loadModels(c) ==
    [c EXCEPT !.loading = IF form = FormA THEN TRUE ELSE @,
              !.pending["load"] = @ + 1]

\* The effects whose dependencies changed between the views old and v.
runEffects(c, old, v) ==
    LET pollDeps == old.step # v.step \/ old.modelsLoaded # v.modelsLoaded
        c1 == IF pollDeps /\ form \in {FormA, FormB, Hold7}
              THEN [c EXCEPT !.timer["poll"] = IF PollArmed(v) THEN PollUnits ELSE Off]
              ELSE c
        c2 == IF form = FormA /\ old.step # v.step /\ v.step = "initializing"
              THEN loadModels(c1)
              ELSE c1
        c3 == IF /\ form = Hold7
                 /\ (old.cameraReady # v.cameraReady \/ old.retryAttempt # v.retryAttempt)
                 /\ v.cameraReady /\ ~v.modelsLoaded
              THEN loadModels(c2)
              ELSE c2
        c4 == IF form = Rec4 /\ old.cameraStream # v.cameraStream
              THEN stopTracks(c3, old.cameraStream)
              ELSE c3
        c5 == IF form = HookHost /\ old.stream # v.stream
              THEN [c4 EXCEPT !.hook.live = @ \ {old.stream}]
              ELSE c4
    IN  c5

Render ==
    /\ RenderPending
    /\ LET v == ViewOf(Cur)
       IN  /\ view' = v
           /\ cam' = IF WebcamShown(v)
                     THEN (IF WebcamShown(view) THEN cam ELSE "pending")
                     ELSE "off"
           /\ Put(runEffects(Cur, view, v))
    /\ UNCHANGED << form, apiVer, inflight >>

\* The Webcam element's getUserMedia resolves.
CameraGranted ==
    /\ href = "app" /\ ~RenderPending /\ cam = "pending"
    /\ cam' = "live"
    /\ Put(IF form = Hold7
           THEN [setStep(Cur, "initializing") EXCEPT !.cameraReady = TRUE]
           ELSE Cur)
    /\ UNCHANGED << form, apiVer, view, inflight >>

CameraDenied ==
    /\ href = "app" /\ ~RenderPending /\ cam = "pending"
    /\ cam' = "denied"
    /\ Put(Cur)
    /\ UNCHANGED << form, apiVer, view, inflight >>

\* Time passes: no render is outstanding and no due timer is left unfired.
\* A render is committed before the clock moves, and once the polling interval
\* is cleared the detections still in flight settle before it moves again.
\* While something reads the clock in units (the polling interval, a running
\* cooldown) one unit passes; otherwise time runs on to the next deadline.
Min(S) == CHOOSE x \in S : \A y \in S : x <= y
Armed == {n \in TimerNames : timer[n] > 0}
FineGrained == timer["poll"] # Off
Leap == IF FineGrained \/ Armed = {} THEN 1 ELSE Min({timer[n] : n \in Armed})
Age(n, cap, d) == IF n + d < cap THEN n + d ELSE cap

Elapse ==
    /\ href = "app"
    /\ ~RenderPending
    /\ \A n \in TimerNames : timer[n] # 0
    /\ Armed # {} \/ sinceBlink < SinceCap
    /\ timer["poll"] = Off => inflight = << >>
    /\ Put([Cur EXCEPT !.timer = [n \in TimerNames |->
                                    IF timer[n] > 0 THEN timer[n] - Leap ELSE timer[n]],
                       !.sinceBlink = Age(@, SinceCap, Leap),
                       !.hist.lowAge = Age(@, LowCap, Leap),
                       !.hist.scnAge = IF hist.scn \in 1..3
                                       THEN Age(@, SinceCap, Leap) ELSE @])
    /\ UNCHANGED << form, apiVer, cam, view, inflight >>

----------------------------------------------------------------------------
(* Events of the gated components *)

Frame == << form, apiVer, cam, view, inflight >>

\* A click needs its button on screen: the component is rendered and up to date.
CanClick == Mounted /\ ~RenderPending

\* 'Start Verification' of the first component, and of part_006: there
\* webcamRef.current is read while the instructions are on screen, and the
\* timeout keeps the stopRecording of that render.
startVerification ==
    /\ form \in {FormA, Rec6} /\ CanClick /\ view.step = "instructions"
    /\ Put(IF form = FormA
           THEN [setStep(Cur, "initializing")
                   EXCEPT !.blinkCount = 0, !.capturedImage = 0, !.hist.started = TRUE]
           ELSE [setStep(Cur, "recording")
                   EXCEPT !.blinkCount = 0, !.capturedImage = 0, !.hist.started = TRUE,
                          !.cameraStream = IF webcamRef /\ cam = "live" THEN "live" ELSE "null",
                          !.timer["stop"] = StopUnits])
    /\ UNCHANGED Frame

\* 'Start Verification' of part_007: onClick={() => setStep('detecting')}.
startDetecting ==
    /\ form = Hold7 /\ CanClick /\ view.step = "instructions"
    /\ Put([setStep(Cur, "detecting") EXCEPT !.hist.started = TRUE])
    /\ UNCHANGED Frame

\* setTimeout(loadModels, 2000) of part_007 fires.
retryTimeout ==
    /\ href = "app" /\ timer["retry"] = 0
    /\ Put(loadModels([Cur EXCEPT !.timer["retry"] = Off]))
    /\ UNCHANGED Frame

\* 'Start Verification' of the second component: onClick={() => setStep('initial-blink')}.
startInitialBlink ==
    /\ form = FormB /\ CanClick /\ ~view.loading /\ view.step = "instructions"
    /\ Put([setStep(Cur, "initial-blink") EXCEPT !.hist.started = TRUE])
    /\ UNCHANGED Frame

\* loadModels after its await: Promise.all resolved (ok) or rejected.
loadModelsSettle(c, ok) ==
    LET c0 == [c EXCEPT !.pending["load"] = @ - 1]
    IN  CASE form = FormA ->
               [(IF ok THEN setStep([c0 EXCEPT !.modelsLoaded = TRUE], "initial-blink")
                       ELSE c0) EXCEPT !.loading = FALSE]
          [] form = FormB ->
               [c0 EXCEPT !.modelsLoaded = IF ok THEN TRUE ELSE @, !.loading = FALSE]
          [] OTHER ->
               IF ok
               THEN [c0 EXCEPT !.modelsLoaded = TRUE]
               ELSE [c0 EXCEPT !.retryAttempt = @ + 1, !.timer["retry"] = RetryUnits]

loadModelsDone ==
    /\ href = "app" /\ ~RenderPending /\ pending["load"] > 0
    /\ \E ok \in BOOLEAN :
          LET c == [loadModelsSettle(Cur, ok)
                      EXCEPT !.hist.loadResult = IF ok THEN "ok" ELSE "failed"]
          IN  WithinBounds(c) /\ Put(c)
    /\ UNCHANGED Frame

\* A tick of setInterval(detectFace, 100): detectFace up to its await.  A frame
\* of a camera that is not live yet shows no face: that call is settled at once.
detectFace ==
    /\ href = "app" /\ ~RenderPending /\ timer["poll"] = 0
    /\ Len(inflight) < MaxInflight
    /\ LET runs == webcamRef /\ view.modelsLoaded
           c == [Cur EXCEPT !.timer["poll"] = PollUnits]
       IN  /\ inflight' = IF runs /\ cam = "live" THEN Append(inflight, view.step)
                                                  ELSE inflight
           /\ Put(IF runs /\ cam # "live" THEN applyDetection(c, view.step, NoFace) ELSE c)
    /\ UNCHANGED << form, apiVer, cam, view >>

\* Ghost bookkeeping of one applied observation (read by the properties only).
\* scn follows the scenario [blink, centered, blink, blink], each observation
\* applied alone by the closure of the current step, blinks more than the
\* cooldown apart; the frames polled in between show an open-eyed face off
\* the centre.  lateFirst: its first blink came later than the cooldown after
\* the component mounted.
ScenarioObs(k) == IF k = 2 THEN CenteredObs ELSE BlinkObs

noteObservation(before, after, cstep, obs, alone) ==
    LET low == obs.kind = "face" /\ obs.ear < BlinkThreshold
              /\ cstep \in {"initial-blink", "final-blink", "blinking"}
        countedNow == after.hist.justCounted
        k == before.hist.scn
        inOrder == /\ k \in 0..3
                   /\ alone /\ cstep = before.step /\ ~RenderPending
                   /\ obs = ScenarioObs(k + 1)
                   /\ (k = 0 => before.step = "initial-blink" /\ before.hist.submits = 0)
                   /\ (k \in {2, 3} => before.hist.scnAge > Cooldown)
        waiting == k = 0 /\ ~low /\ after.step = "initial-blink"
        between == k \in 1..4 /\ obs = NeutralObs
        scn == IF inOrder THEN k + 1
               ELSE IF waiting THEN 0 ELSE IF between THEN k ELSE Off
    IN  [after EXCEPT
           !.hist.dbl = low /\ countedNow /\ before.hist.lowAge = 1,
           !.hist.lowAge = IF low /\ countedNow THEN 0 ELSE @,
           !.hist.scn = scn,
           !.hist.scnAge = IF scn \in 1..3 /\ inOrder /\ obs = BlinkObs THEN 0
                           ELSE IF scn \in 1..3 THEN @ ELSE SinceCap,
           !.hist.lateFirst = IF scn = Off THEN TRUE
                              ELSE IF k = 0 THEN before.sinceBlink > Cooldown ELSE @]

\* detectFace after its await: the calls in flight settle oldest first.
detectFaceDone ==
    /\ href = "app" /\ form \in {FormA, FormB} /\ inflight # << >>
    /\ \E obs \in Observations :
          LET cstep == Head(inflight)
              c == applyDetection(Cur, cstep, obs)
              c1 == noteObservation(Cur, c, cstep, obs, Len(inflight) = 1)
              c2 == [c1 EXCEPT !.hist.late = IF Mounted /\ cam # "live"
                                             THEN "detection" ELSE "none"]
          IN  /\ WithinBounds(c2)
              /\ Put(c2)
              /\ inflight' = Tail(inflight)
    /\ UNCHANGED << form, apiVer, cam, view >>

\* The replies the KYC endpoint can give (the token field is read by login only).
KycReplies ==
    {r \in Replies : /\ r.body.token = NoToken
                     /\ (r.status # 200 => r.body.success = "undef")
                     /\ (r.status = NoResponse => r.body.message = "")}

\* The side effects of an API call on localStorage and the location, and the
\* ghost record of the call.
noteCall(c, url, reply, result) ==
    [c EXCEPT !.token = IF result.clearToken THEN NoToken ELSE @,
              !.href = IF result.redirect THEN "/login" ELSE @,
              !.hist.last = [NoCall EXCEPT
                               !.status = reply.status, !.flag = reply.body.success,
                               !.message = reply.body.message, !.kind = result.kind,
                               !.success = result.success,
                               !.resultMessage = result.message, !.url = url,
                               !.hadToken = c.token # NoToken,
                               !.authorized = Interceptor(apiVer, url, c.token)]]

\* The handler that awaited submitKYC continues, by component.
afterSubmit(c, result) ==
    CASE form \in {FormA, FormB} -> handleSubmitDone(c, result)
      [] form = Live -> handleSubmitLiveDone(c, result)
      [] OTHER -> handleStopRecordingDone(c, result)

\* An outstanding submitKYC call settles and the awaiting handler continues.
submitKYCDone ==
    /\ href = "app" /\ ~RenderPending
    /\ \E i \in 1..Len(net) :
         \E reply \in KycReplies :
            LET result == submitKYC(apiVer, reply)
                c0 == noteCall([Cur EXCEPT !.net = RemoveAt(net, i),
                                           !.hist.done = @ \cup {net[i]}],
                               KycUrl, reply, result)
                c1 == afterSubmit(c0, result)
                c2 == [c1 EXCEPT
                         !.hist.last.completed = c1.step = "complete",
                         !.hist.last.scheduled = c1.hist.navs > c0.hist.navs]
            IN  WithinBounds(c2) /\ Put(c2)
    /\ UNCHANGED Frame

\* The component unmounts: the effects' cleanups run (clearInterval of the
\* polling effect; part_004 stops the tracks of the stream of its last render).
unmount(c) ==
    LET c1 == [c EXCEPT !.timer["poll"] = Off]
    IN  IF form = Rec4 THEN stopTracks(c1, view.cameraStream)
        ELSE IF form = HookHost THEN [c1 EXCEPT !.hook.live = @ \ {view.stream}]
        ELSE c1

\* The timeout set on completion fires: navigate('/dashboard').
navigate ==
    /\ href = "app" /\ timer["nav"] = 0
    /\ Put(unmount([Cur EXCEPT !.timer["nav"] = Off, !.route = DashboardRoute]))
    /\ cam' = "off"
    /\ UNCHANGED << form, apiVer, view, inflight >>

\* The user leaves the verification view (history navigation back to the
\* dashboard): the component unmounts.
leave ==
    /\ CanClick
    /\ Put(unmount([Cur EXCEPT !.route = DashboardRoute, !.hist.left = TRUE]))
    /\ cam' = "off"
    /\ UNCHANGED << form, apiVer, view, inflight >>

\* 'Start Verification' of LivenessCheck.
handleStartDetection ==
    /\ form = Live /\ CanClick /\ view.step = "instructions"
    /\ Put([setStep(Cur, "detection") EXCEPT !.timer["blinkPrompt"] = BlinkPromptUnits])
    /\ UNCHANGED Frame

\* The first timeout of handleStartDetection fires and sets the second.
blinkPromptTimeout ==
    /\ href = "app" /\ timer["blinkPrompt"] = 0
    /\ Put([Cur EXCEPT !.timer["blinkPrompt"] = Off, !.timer["capture"] = CaptureUnits])
    /\ UNCHANGED Frame

\* setTimeout(captureImage, 2000) fires.
captureTimeout ==
    /\ href = "app" /\ timer["capture"] = 0
    /\ LET c == captureImage([Cur EXCEPT !.timer["capture"] = Off])
       IN  WithinBounds(c) /\ Put(c)
    /\ UNCHANGED Frame

\* 'Retake Photo'.
handleRetake ==
    /\ form = Live /\ CanClick /\ view.step = "preview" /\ view.hasImage
    /\ Put([setStep(Cur, "detection") EXCEPT !.capturedImage = 0])
    /\ UNCHANGED Frame

\* 'Submit' of LivenessCheck: handleSubmit up to its await.
handleSubmitClick ==
    /\ form = Live /\ CanClick /\ view.step = "preview" /\ view.hasImage
    /\ capturedImage # 0
    /\ LET c == postKyc(setStep(Cur, "submitting"), capturedImage)
       IN  WithinBounds(c) /\ Put(c)
    /\ UNCHANGED Frame

\* 'Allow Camera Access' of part_004: requestCameraPermission up to its await.
requestCameraPermission ==
    /\ form = Rec4 /\ CanClick /\ view.step = "permissions"
    /\ pending["perm"] = 0
    /\ Put([Cur EXCEPT !.pending["perm"] = 1])
    /\ UNCHANGED Frame

\* navigator.mediaDevices.getUserMedia settles: requestCameraPermission of
\* part_004, or startRecording of part_005, after its await.
getUserMediaDone ==
    /\ form \in {Rec4, Rec5}
    /\ href = "app" /\ ~RenderPending /\ pending["perm"] > 0
    /\ \E granted \in BOOLEAN, ok \in BOOLEAN :
          LET c == [Cur EXCEPT !.pending["perm"] = @ - 1]
          IN  Put(IF ~granted THEN [c EXCEPT !.hist.denied = TRUE]
                  ELSE IF form = Rec4
                       THEN [setStep(c, "instructions") EXCEPT !.cameraStream = "live",
                                                               !.tracks = "live"]
                       ELSE beginRecording(c, ok))
    /\ UNCHANGED Frame

\* A component calls requestPermission of useCamera: the hook up to its await.
\* Nothing keeps a second call from starting while the first is outstanding.
requestPermission ==
    /\ form = HookHost /\ CanClick
    /\ hook.acquired + pending["perm"] < MaxAcquire
    /\ Put([Cur EXCEPT !.pending["perm"] = @ + 1])
    /\ UNCHANGED Frame

\* requestPermission after its await, with the failure path storing the
\* stream value null.
requestPermissionSettle_FailureClearsStream(c, granted) ==
    IF granted
    THEN LET n == c.hook.acquired + 1
         IN  [c EXCEPT !.hook.acquired = n, !.hook.live = @ \cup {n},
                       !.hook.stream = n, !.hook.hasPermission = "true",
                       !.hook.error = FALSE]
    ELSE [c EXCEPT !.hook.hasPermission = "false", !.hook.error = TRUE,
                   !.hook.stream = 0, !.hist.denied = TRUE]

\* requestPermission after its await: a resolved getUserMedia hands over a new
\* stream with live tracks, stored by setStream; a rejection sets
\* hasPermission false and the error, and leaves stream alone.
requestPermissionSettle(c, granted) ==
    IF granted
    THEN LET n == c.hook.acquired + 1
         IN  [c EXCEPT !.hook.acquired = n, !.hook.live = @ \cup {n},
                       !.hook.stream = n, !.hook.hasPermission = "true",
                       !.hook.error = FALSE]
    ELSE [c EXCEPT !.hook.hasPermission = "false", !.hook.error = TRUE,
                   !.hist.denied = TRUE]

\* getUserMedia of a requestPermission call settles.
requestPermissionDone ==
    /\ form = HookHost
    /\ href = "app" /\ ~RenderPending /\ pending["perm"] > 0
    /\ \E granted \in BOOLEAN :
          Put(requestPermissionSettle([Cur EXCEPT !.pending["perm"] = @ - 1], granted))
    /\ UNCHANGED Frame

\* 'Start Recording' of part_004 and part_005.
startRecording ==
    /\ form \in {Rec4, Rec5} /\ CanClick /\ view.step = "instructions"
    /\ \E ok \in BOOLEAN :
          LET c == [Cur EXCEPT !.hist.started = TRUE]
          IN  Put(IF form = Rec4
                  THEN (IF view.cameraStream = "null" THEN c ELSE beginRecording(c, ok))
                  ELSE (IF ~webcamRef THEN c ELSE [c EXCEPT !.pending["perm"] = @ + 1]))
    /\ UNCHANGED Frame

\* A tick of the countdown interval: the updater of setRecordingTime; at
\* prev >= 4 it clears the interval and stopRecording stops the recorder.
recordingTick ==
    /\ href = "app" /\ timer["rec"] = 0
    /\ Put(IF recordingTime >= RecSeconds
           THEN [Cur EXCEPT !.timer["rec"] = Off, !.recordingTime = RecSeconds,
                            !.mediaRecorder = IF @ = "recording" THEN "stopping" ELSE @,
                            !.hist.recTicks = 0, !.hist.stopTick = hist.recTicks + 1]
           ELSE [Cur EXCEPT !.timer["rec"] = RecUnits, !.recordingTime = @ + 1,
                            !.hist.recTicks = @ + 1])
    /\ UNCHANGED Frame

\* The blob sizes (MB) a recorder hands over when it stops.
BlobSizes == {0, 1, MaxBlobSize + 1}

\* The stopped recorder fires dataavailable and stop.
recorderStopped ==
    /\ href = "app" /\ ~RenderPending /\ mediaRecorder = "stopping"
    /\ \E size \in BlobSizes :
          LET c == handleStopRecording(Cur, size)
              released == ~Mounted \/ (form = Rec4 /\ tracks # "live")
              c1 == [c EXCEPT !.hist.late =
                                IF ~released THEN "none"
                                ELSE IF c.hist.submits > hist.submits THEN "submit"
                                ELSE "stop"]
          IN  WithinBounds(c1) /\ Put(c1)
    /\ UNCHANGED Frame

\* The 4 s timeout of part_006 fires: stopRecording with the videoStream of
\* the render that set the timeout.
stopTimeout ==
    /\ href = "app" /\ timer["stop"] = 0
    /\ Put([Cur EXCEPT !.timer["stop"] = Off,
                       !.mediaRecorder = IF cameraStream # "null" THEN "recording" ELSE @])
    /\ UNCHANGED Frame

\* The events of the mounted component and of what it left pending.
Progress ==
    \/ Render
    \/ CameraGranted
    \/ CameraDenied
    \/ Elapse
    \/ startVerification
    \/ startInitialBlink
    \/ startDetecting
    \/ retryTimeout
    \/ handleStartDetection
    \/ blinkPromptTimeout
    \/ captureTimeout
    \/ handleRetake
    \/ handleSubmitClick
    \/ requestCameraPermission
    \/ getUserMediaDone
    \/ requestPermission
    \/ requestPermissionDone
    \/ startRecording
    \/ recordingTick
    \/ recorderStopped
    \/ stopTimeout
    \/ loadModelsDone
    \/ detectFace
    \/ detectFaceDone
    \/ submitKYCDone
    \/ navigate

Next ==
    \/ Progress
    \/ leave

Spec == Init /\ [][Next]_vars

----------------------------------------------------------------------------
(* Sign-in, sign-up and the dashboard *)

AuthReplies ==
    {r \in Replies : /\ r.body.success = "undef"
                     /\ (r.status # 200 => r.body.token = NoToken)
                     /\ (r.status = NoResponse => r.body.message = "")}

\* signup of the API module: the request and what the reply does to the store.
signup(c, reply) ==
    noteCall(c, SignupUrl, reply,
             IF Is2xx(reply) THEN Returned("undef", "")
             ELSE handleApiError(apiVer, SignupUrl, reply))

\* login of the API module: a token in the response is stored.
login(c, reply) ==
    LET c1 == noteCall(c, LoginUrl, reply,
                       IF Is2xx(reply) THEN Returned("undef", "")
                       ELSE handleApiError(apiVer, LoginUrl, reply))
    IN  IF Is2xx(reply) /\ reply.body.token # NoToken
        THEN [c1 EXCEPT !.token = reply.body.token]
        ELSE c1

\* handleSubmit of LoginForm: navigates unless login threw.
LoginForm_handleSubmit ==
    /\ href = "app" /\ route = LoginRoute
    /\ \E reply \in AuthReplies :
         LET c1 == login(Cur, reply)
         IN  Put(IF c1.hist.last.kind = "throw" THEN c1
                 ELSE [c1 EXCEPT !.route = DashboardRoute])
    /\ UNCHANGED Frame

\* The link of LoginForm to the sign-up page.
LinkToSignup ==
    /\ href = "app" /\ route = LoginRoute
    /\ Put([Cur EXCEPT !.route = SignupRoute])
    /\ UNCHANGED Frame

\* The sign-up form posts through signup of the API module.
SignupForm_submit ==
    /\ href = "app" /\ route = SignupRoute
    /\ \E reply \in AuthReplies : Put(signup(Cur, reply))
    /\ UNCHANGED Frame

\* handleLogout of Dashboard.
handleLogout ==
    /\ href = "app" /\ route = DashboardRoute
    /\ Put([Cur EXCEPT !.token = NoToken, !.user = NoUser, !.route = LoginRoute,
                       !.hist.loggedOut = TRUE])
    /\ UNCHANGED Frame

AuthNext ==
    \/ LoginForm_handleSubmit
    \/ LinkToSignup
    \/ SignupForm_submit
    \/ handleLogout

AuthSpec == AuthInit /\ [][AuthNext]_vars

----------------------------------------------------------------------------
(* The centring check on a frame *)

\* Jaw points jawline[0], jawline[16] and video sizes, in pixels.
JawXs == {100, 300, 340, 640}
JawYs == {200, 240, 480}
VideoSizes == {<< 640, 480 >>, << 0, 0 >>}
Probes ==
    {[x0 |-> a, y0 |-> b, x16 |-> c, y16 |-> d, width |-> wh[1], height |-> wh[2],
      checked |-> FALSE] : a \in JawXs, b \in JawYs, c \in JawXs, d \in JawYs,
                           wh \in VideoSizes}

\* Twice videoCenter.x (or .y) for a video dimension: the first component
\* writes  width || 0 / 2  (the dimension itself unless it is 0), the second
\* (width || 0) / 2.
TwiceVideoCenter(dim) == IF form = FormA THEN 2 * dim ELSE dim

\* distanceFromCenter, rounded down to a whole pixel (which keeps every
\* comparison with a whole number of pixels).
distanceFromCenter(p) ==
    LET dx == p.x0 + p.x16 - TwiceVideoCenter(p.width)
        dy == p.y0 + p.y16 - TwiceVideoCenter(p.height)
        v == dx * dx + dy * dy
    IN  CHOOSE r \in 0..2000 : 4 * r * r <= v /\ v < 4 * (r + 1) * (r + 1)

\* The components in 'look-straight' with the camera live, about to look at
\* a frame.
CenterInit ==
    /\ form \in {FormA, FormB}
    /\ apiVer \in ApiVers
    /\ token = "t1"
    /\ user = "profile"
    /\ route = KycRoute
    /\ probe \in Probes
    /\ hook = NoHook
    /\ href = "app"
    /\ step = "look-straight"
    /\ blinkCount = (IF form = FormA THEN 0 ELSE 1)
    /\ loading = FALSE
    /\ modelsLoaded = TRUE
    /\ faceDetected = TRUE
    /\ capturedImage = 0
    /\ sinceBlink = (IF form = FormA THEN 0 ELSE SinceCap)
    /\ cam = "live"
    /\ cameraStream = "null"
    /\ tracks = "none"
    /\ recordingTime = 0
    /\ chunks = << >>
    /\ mediaRecorder = "null"
    /\ cameraReady = FALSE
    /\ retryAttempt = 0
    /\ timer = [n \in TimerNames |-> IF n = "poll" THEN PollUnits ELSE Off]
    /\ inflight = << >>
    /\ net = << >>
    /\ pending = [n \in PendingNames |-> 0]
    /\ hist = [InitHist EXCEPT !.everFace = TRUE]
    /\ view = [step |-> "look-straight", loading |-> FALSE, modelsLoaded |-> TRUE,
               hasImage |-> FALSE, cameraStream |-> "null",
               cameraReady |-> FALSE, retryAttempt |-> 0, stream |-> 0]

\* The detection of the frame resolves in 'look-straight': checkStraightFace.
checkFrame ==
    /\ Mounted /\ step = "look-straight" /\ ~probe.checked
    /\ Put(checkStraightFace([Cur EXCEPT !.probe.checked = TRUE],
                             distanceFromCenter(probe)))
    /\ UNCHANGED Frame

CenterNext == checkFrame

CenterSpec == CenterInit /\ [][CenterNext]_vars

----------------------------------------------------------------------------
(* Properties *)

\* C1: in KYCForm linked with api.ts, a submission whose HTTP call ended in an
\* error response or in no response never sets step to 'complete' and never
\* schedules the navigation to /dashboard.
C1_FailedSubmitNeverCompletes ==
    (form = FormA /\ apiVer = ApiTs /\ hist.last.url = KycUrl /\ hist.last.status # 200)
        => (~hist.last.completed /\ ~hist.last.scheduled /\ step # "complete")

\* C2: after an API call that received HTTP 401, whatever the endpoint, no
\* token is stored.
C2_Unauthorized401ClearsToken ==
    (hist.last.status = 401 /\ hist.last.hadToken) => token = NoToken

\* C3: submitKYC of api.ts on HTTP 200 with the body { message: "Verification
\* failed" } (no success flag) yields success=false with exactly that message.
C3_RejectionInBodyIsFailure ==
    (/\ apiVer = ApiTs /\ hist.last.url = KycUrl /\ hist.last.status = 200
     /\ hist.last.flag = "undef" /\ hist.last.message = "Verification failed")
        => (/\ hist.last.kind = "value" /\ hist.last.success = "false"
            /\ hist.last.resultMessage = "Verification failed")

\* C4: as long as no detection has resolved to a face, a gated component never
\* reaches 'processing' (or 'complete'), takes no screenshot and never calls
\* submitKYC; it does not leave its first detection step either.
C4_NoFaceNoProcessing ==
    (form \in GatedForms /\ ~hist.everFace)
        => (/\ step \notin {"look-straight", "final-blink", "processing", "complete"}
            /\ hist.procEntries = 0 /\ hist.shots = 0 /\ hist.submits = 0
            /\ net = << >> /\ blinkCount = 0)

\* C4 witness: the first component is polling, a detection has just resolved
\* to no face, none ever resolved to a face, and more than the cooldown passed.
C4_Witness ==
    /\ form = FormA /\ step = "initial-blink" /\ hist.justMissed /\ ~hist.everFace
    /\ sinceBlink = SinceCap

\* C5: once the observations [blink, centered, blink, blink], blinks more than
\* 500 ms apart, have been applied from 'initial-blink', the component has
\* entered 'processing' exactly once, called getScreenshot exactly once and
\* called submitKYC exactly once.
C5_ScenarioCapturesOnce ==
    hist.scn = 4 => (hist.procEntries = 1 /\ hist.shots = 1 /\ hist.submits = 1)

\* C6: a below-threshold observation applied 100 ms after one that was counted
\* as a blink is not counted.
C6_DebounceWindow == ~hist.dbl

\* C7: a recorder stop whose chunks add up to an empty blob never calls
\* submitKYC: the stop handler resets the session and leaves no call outstanding.
C7_EmptyRecordingNotSubmitted ==
    hist.stopSize = 0
        => (/\ ~hist.stopSubmitted /\ net = << >> /\ chunks = << >>
            /\ mediaRecorder = "null" /\ recordingTime = 0
            /\ step = (IF form = Rec4 THEN "permissions" ELSE "instructions"))

\* C7 witness: a recorder has just stopped with an empty blob.
C7_Witness == form = Rec4 /\ hist.stopSize = 0 /\ hist.procEntries >= 1

\* C8: no submitKYC call carries evidence that an earlier, settled submitKYC
\* call already carried.
C8_EvidenceNeverResubmitted == ~hist.resent

\* C9: at most one submitKYC call is outstanding.
C9_SingleFlight == Len(net) <= 1

\* C10: whenever the webcam is mounted with its stream live and no bound of
\* the model is exhausted, some event other than leaving the view is still
\* enabled.
C10_NeverStuckWithCamera ==
    (/\ webcamRef /\ cam = "live"
     /\ hist.shots < MaxShots /\ hist.submits < MaxShots /\ hist.procEntries < MaxShots
     /\ blinkCount < MaxBlinks /\ retryAttempt < MaxRetry)
        => ENABLED <<Progress>>_vars

\* C11: whenever step is 'complete', or the session was just reset after a
\* failed stop or submission, no track of the stream the form acquired is live.
C11_CameraReleasedOnCompleteOrFailed ==
    (\/ step = "complete"
     \/ hist.stopSize # Off /\ ~hist.stopSubmitted
     \/ hist.last.kind # "none" /\ step \in {"permissions", "instructions"})
        => tracks # "live"

\* C12: a step that stops the tracks of an already stopped stream leaves the
\* tracks as the first release left them; and when that step is the effect
\* cleanup of a render (the one that follows resetVerification), it leaves
\* the step, the stream and the rest of the session state unchanged as well.
C12_ReleaseIsIdempotent ==
    [][hist'.rereleased =>
          /\ tracks' = tracks /\ tracks = "stopped"
          /\ view' # view =>
                /\ step' = step /\ cameraStream' = cameraStream /\ chunks' = chunks
                /\ mediaRecorder' = mediaRecorder /\ recordingTime' = recordingTime
                /\ timer' = timer /\ net' = net /\ route' = route]_vars

\* C12 witness: in part_004 the cleanup has just stopped again the stream that
\* resetVerification had stopped.
C12_Witness ==
    form = Rec4 /\ hist.rereleased /\ tracks = "stopped" /\ step = "permissions"

\* C13: a request carries the Authorization header exactly when a token is
\* stored and its URL is neither the signup nor the login endpoint.
C13_AuthorizationOnlyWhereDue ==
    hist.last.kind # "none" =>
        (hist.last.authorized <=>
            (hist.last.hadToken /\ hist.last.url \notin {SignupUrl, LoginUrl}))

\* C14: right after the user's start action, and in every early step re-entered
\* right after a failed submission, blinkCount is 0.
C14_NewAttemptResetsCounters ==
    (\/ hist.started
     \/ /\ hist.last.kind # "none"
        /\ step \in {"instructions", "initializing", "initial-blink", "detecting"})
        => blinkCount = 0

\* C15: a submission the backend accepted puts the step at 'complete' with the
\* navigation timer set to 2000 ms, and the verification view is left for the
\* dashboard only from step 'complete'.
C15_CompleteThenNavigate ==
    /\ (hist.last.status = 200 /\ hist.last.flag = "true") =>
           (step = "complete" /\ timer["nav"] = NavUnits /\ route = KycRoute)
    /\ (route = DashboardRoute /\ ~hist.left) => step = "complete"

\* C16: right after handleLogout, and right after a 401 reply went through
\* handleApiError, localStorage holds neither 'token' nor 'user'.
C16_StoreClearedOnLogoutAnd401 ==
    (hist.loggedOut \/ hist.last.status = 401) => (token = NoToken /\ user = NoUser)

\* C17: the result of a failed KYC submission tells its class: no reply of
\* another failure class (auth: 401; application: 400 or a rejection in the
\* body; transport: no response or another status) yields the same result.
C17_FailureClassesDistinct ==
    LET class(status, flag) ==
            CASE status = 401 -> "auth"
              [] status = 400 \/ (status = 200 /\ flag = "false") -> "application"
              [] status \in {NoResponse, 500} -> "transport"
              [] OTHER -> "none"
        mine == class(hist.last.status, hist.last.flag)
    IN  (hist.last.url = KycUrl /\ mine # "none") =>
            \A r \in KycReplies :
                LET other == submitKYC(apiVer, r)
                IN  class(r.status, r.body.success) \notin {"none", mine} =>
                        << other.kind, other.success, other.message >>
                            # << hist.last.kind, hist.last.success, hist.last.resultMessage >>

\* C18: right after a submission the API function reported as failed, and
\* right after a stop that found an empty recording, the form is back at its
\* first step with blinkCount 0 and no captured image; and the step is
\* 'processing' only while a submission is outstanding.
C18_FailureReturnsToInstructions ==
    LET first == IF form = Rec4 THEN "permissions" ELSE "instructions"
        failed == \/ hist.last.kind = "throw"
                  \/ hist.last.kind = "value" /\ hist.last.success = "false"
                  \/ hist.stopSize = 0
    IN  /\ failed => (step = first /\ blinkCount = 0 /\ capturedImage = 0)
        /\ step = "processing" => net # << >>

\* C19: at most one detection call is awaiting its result at any time.
C19_OneDetectionAtATime ==
    Len(inflight) <= 1

\* C20: while the step is 'instructions', 'initializing', 'processing' or
\* 'complete', no polling interval is armed.
C20_PollingOnlyInDetectionSteps ==
    step \in {"instructions", "initializing", "processing", "complete"}
        => timer["poll"] = Off

\* C21: no detection result is applied once the camera it looked at has been
\* released, and no recorder stop handler runs and no submitKYC call is issued
\* once the view was left or the stream's tracks were stopped.
C21_NothingFiresAfterRelease ==
    hist.late = "none"

\* C22: right after the face-detection models loaded successfully the step is
\* not 'initializing'.
C22_LoadedLeavesInitializing ==
    hist.loadResult = "ok" => step # "initializing"

\* C23: right after a failed model load, either a re-attempt is scheduled and
\* fewer than MaxRetry attempts have failed, or the step is not 'initializing'.
C23_LoadFailureBoundedAndSurfaced ==
    hist.loadResult = "failed" =>
        IF timer["retry"] # Off THEN retryAttempt < MaxRetry
        ELSE step # "initializing"

\* C24: when the face was missed on two consecutive observations, the step is
\* no longer past the first detection state and blinkCount is 0.
C24_FaceLossReverts ==
    (Mounted /\ hist.justMissed /\ hist.missRun >= 2) =>
        (/\ step \notin {"look-straight", "final-blink", "blinking", "holding"}
         /\ blinkCount = 0)

\* C25: while the step is 'look-straight', and while it is 'final-blink' with
\* no blink counted in that phase yet, blinkCount is 0.
C25_CounterResetAfterFirstBlink ==
    (\/ step = "look-straight"
     \/ step = "final-blink" /\ hist.phaseBlinks = 0)
        => blinkCount = 0

\* C26: a blink that moves the step from 'final-blink' to 'processing' is at
\* least the second blink counted in 'final-blink'.
C26_CaptureNeedsTwoFinalBlinks ==
    hist.capturedAfter # 0 => hist.capturedAfter >= 2

\* C27: in the gated component (the first component of KYCForm.tsx) every
\* step change into 'look-straight' starts at 'initial-blink', every one into
\* 'final-blink' at 'look-straight' and every one into 'processing' at
\* 'final-blink'.
C27_GatesInOrder ==
    [][(form = FormA /\ step' # step) =>
          /\ step' = "look-straight" => step = "initial-blink"
          /\ step' = "final-blink" => step = "look-straight"
          /\ step' = "processing" => step = "final-blink"]_vars

\* C28: once the frame was checked, the step is 'final-blink' exactly when the
\* centre of the jaw points lies less than 100 pixels from the centre
\* (width/2, height/2) of the video frame.
C28_CenteredWithin100Pixels ==
    probe.checked =>
        LET dx == probe.x0 + probe.x16 - probe.width
            dy == probe.y0 + probe.y16 - probe.height
        IN  step = "final-blink" <=> dx * dx + dy * dy < 4 * CenterThreshold * CenterThreshold

\* C29: the countdown tick that calls stopRecording is the tick at which
\* RecSeconds (4) seconds have passed since the recording started.
C29_StopsAtFourSeconds ==
    hist.stopTick # 0 => hist.stopTick = RecSeconds

\* C30: in the recording forms the step has left 'instructions' (or the
\* camera request is pending) right after the start action, and while the
\* view shows 'recording' the countdown, the stop timeout or the recorder's
\* stop is still to come.
C30_StartMovesForward ==
    form \in {Rec4, Rec5, Rec6} =>
        /\ hist.started => (step # "instructions" \/ pending["perm"] > 0)
        /\ (Mounted /\ step = "recording") =>
               \/ timer["rec"] # Off
               \/ timer["stop"] # Off
               \/ mediaRecorder = "stopping"

\* C31: a step in which a detection call threw leaves faceDetected false and
\* changes neither the step nor blinkCount.
C31_DetectionErrorIsNoFace ==
    [][hist'.justThrew =>
          (~faceDetected' /\ step' = step /\ blinkCount' = blinkCount)]_vars

C33_FailureResetsRecording ==
    LET ResetState ==
            /\ step = "permissions" /\ tracks = "stopped" /\ cameraStream = "null"
            /\ chunks = << >> /\ mediaRecorder = "null" /\ recordingTime = 0
    IN  form = Rec4 =>
            /\ (hist.stopSize = 0 \/ hist.stopSize > MaxBlobSize)
                   => (ResetState /\ ~hist.stopSubmitted /\ net = << >>)
            /\ (hist.last.kind = "throw" \/ hist.last.flag = "false"
                  \/ (hist.last.kind = "value" /\ hist.last.success # "true"))
                   => ResetState

\* C34: the step in which a submitKYC call settles starts no submitKYC call,
\* and no submitKYC call carries evidence that an earlier call carried, settled
\* or still outstanding.
C34_NoAutomaticRetry ==
    [][/\ hist'.last.kind # "none" => hist'.submits = hist.submits
       /\ ~hist'.resent
       /\ \A i, j \in 1..Len(net') : net'[i] = net'[j] => i = j]_vars

\* C35: a login request that ended in an error response or in no response
\* leaves the route at the login form (no success path, no navigation to
\* /dashboard) and stores no token.
C35_FailedLoginStaysOnForm ==
    [][(hist'.last.url = LoginUrl /\ hist'.last.status # 200)
          => (route' = route /\ token' \in {token, NoToken})]_vars

\* C36: at most one stream acquired by useCamera has live tracks at a time, and
\* once the component is unmounted and no acquisition is outstanding no
\* acquired stream is live.
C36_NoStreamLeaks ==
    form = HookHost =>
        /\ Cardinality(hook.live) <= 1
        /\ (~Mounted /\ pending["perm"] = 0) => hook.live = {}

====
